---- MODULE Spec2Model ----
(***************************************************************************)
(* Model of pc-power-monitor: the polling scheduler and the estimator of   *)
(* hardware_monitor.py and the aggregation store of data_storage.py.       *)
(*                                                                         *)
(* Units.  The code computes with floats; the model computes exactly with  *)
(* integers: power in milliwatts (tdp[W] * util[%] * 7 is the mW value of  *)
(* tdp * (util/100) * 0.7), time in seconds.                               *)
(***************************************************************************)
EXTENDS Integers, Sequences, FiniteSets, TLC

\* ---------------------------------------------------------------- bounds
MaxThreads == 2      \* polling threads created in one behaviour
MaxTicks == 2        \* poll ticks started in one behaviour
MaxReadings == 3     \* save_power_reading calls in one behaviour
MaxClock == 48       \* last hour (UTC) the clock reaches

\* ------------------------------------------------------ program constants
DEFAULT_POLLING_INTERVAL == 5
JoinTimeout == 1
BackoffSeconds == 1

\* intervals start_monitoring is called with
Intervals == {DEFAULT_POLLING_INTERVAL}

Threads == 1..MaxThreads

\* ----------------------------------------------------------------- state
VARIABLES
    \* HardwareMonitor scheduler fields
    callback,        \* TRUE iff a consumer callback is registered
    running,         \* self.running
    monitor_thread,  \* self.monitor_thread: 0 is None, else a thread id
    \* the foreground caller
    fg,              \* "idle", or "joining" inside stop_monitoring's join
    joinLeft,        \* seconds left of join(timeout=1.0)
    \* the polling threads
    pc,              \* position of each thread in _monitor_loop
    thInterval,      \* the interval argument of each thread
    sleepLeft,       \* seconds left of the thread's time.sleep
    cur,             \* sample held by the thread in this tick (0: none)
    nThreads,        \* threads created so far
    ticks,           \* ticks started so far
    nProduced,       \* samples the Estimator produced for the loop so far
    delivered,       \* samples handed to the consumer, in call order
    joined,          \* threads whose stop_monitoring() call has returned
    failed,          \* threads that had a tick end in the except branch
    lastApi,         \* the last start_monitoring/stop_monitoring call a
                     \* caller was seen to make
    \* the Estimator
    lhm_initialized, \* self.lhm_initialized, the Tier A capability flag
    components,      \* self.components: type -> max_power in W
    hw,              \* what the sensors, psutil and nvidia-smi answer
    sample,          \* result of the last get_power_readings() call
    prevTier,        \* tier of the call before the sensors last changed
    machine,         \* what the detectors find on the machine
    detected,        \* what detect_hardware() returned, and the detectors
                     \* that ended in their except branch
    \* the DataStorage database and its clocks
    power_readings,  \* table power_readings, in rowid order
    daily_power,     \* table daily_power, in rowid order
    settings_kwh,    \* row 'kwh_cost' of table settings
    utcNow,          \* the 6-hour slot the clock is in: its first hour,
                     \* counted in UTC from day 0, 00:00
    tzOffset,        \* local time minus UTC, in hours
    lastSave,        \* what the last save_power_reading call did
    lastCall,        \* what the last get_kwh_cost/set_kwh_cost call did
    poll_interval,   \* the interval argument of the start_monitoring call
                     \* whose loop delivers the samples to the store
    \* a second database on the same machine, receiving the same samples
    \* in another order
    power_readings2,
    daily_power2,
    lastQuery,       \* the last get_daily_power_data call and its result,
                     \* until the store or the clock moves on
    \* PowerMonitorUI
    kwh_cost,        \* the DoubleVar behind the price entry
    current_cost,    \* the projection on display, with the price and the
                     \* power it was computed from
    validPrice,      \* the price loaded at start or last accepted by
                     \* _save_settings
    received         \* samples handed to _on_power_reading so far

\* the fields of the HardwareMonitor, the foreground and the threads
monitorVars == <<callback, running, monitor_thread, fg, joinLeft, pc,
                 thInterval, sleepLeft, cur, nThreads, ticks, nProduced,
                 delivered, joined, failed>>

schedVars == <<callback, running, monitor_thread, fg, joinLeft, pc,
               thInterval, sleepLeft, cur, nThreads, ticks, nProduced,
               delivered, joined, failed, lastApi>>

estVars == <<lhm_initialized, components, hw, sample, prevTier, machine,
             detected>>

storeVars == <<power_readings, daily_power, settings_kwh, utcNow, tzOffset,
               lastSave, lastCall, poll_interval, power_readings2,
               daily_power2, lastQuery>>

uiVars == <<kwh_cost, current_cost, validPrice, received>>

vars == <<callback, running, monitor_thread, fg, joinLeft, pc,
          thInterval, sleepLeft, cur, nThreads, ticks, nProduced,
          delivered, joined, failed, lastApi,
          lhm_initialized, components, hw, sample, prevTier, machine, detected,
          power_readings, daily_power, settings_kwh, utcNow, tzOffset,
          lastSave, lastCall, poll_interval, power_readings2,
          daily_power2, lastQuery,
          kwh_cost, current_cost, validPrice, received>>

\* ------------------------------------------------------------- estimator
\* config.py
DEFAULT_CPU_TDP == 65
DEFAULT_GPU_TDP == 150
DEFAULT_MOTHERBOARD_POWER == 30
DEFAULT_RAM_PER_STICK == 5
DEFAULT_SSD_POWER == 3
DEFAULT_HDD_POWER == 7
DEFAULT_IDLE_POWER == 20
\* CPU_UTILIZATION_SCALING 0.7 and GPU_UTILIZATION_SCALING 0.8, in tenths
CPU_UTILIZATION_SCALING == 7
GPU_UTILIZATION_SCALING == 8
\* the utilization assumed for the GPU when none is known, in percent
DefaultGpuUtil == 30

ComponentTypes == {"cpu", "gpu", "motherboard", "memory", "storage"}

\* the inventory detect_hardware() builds when every detector takes its
\* default (two memory sticks, one SSD and one HDD)
DetectedComponents ==
    [cpu |-> DEFAULT_CPU_TDP, gpu |-> DEFAULT_GPU_TDP,
     motherboard |-> DEFAULT_MOTHERBOARD_POWER,
     memory |-> DEFAULT_RAM_PER_STICK * 2,
     storage |-> DEFAULT_SSD_POWER + DEFAULT_HDD_POWER]

\* self.components with the entries of the types in keys only
Restrict(f, keys) == [k \in keys |-> f[k]]

\* inventories: the detected one, and the ones lacking one type (a lookup
\* of the lacking type raises KeyError)
Inventories ==
    {DetectedComponents} \cup
    {Restrict(DetectedComponents, ComponentTypes \ {c}) : c \in ComponentTypes}

\* a sensor of LibreHardwareMonitor: not there, there with Value None, or
\* there with a value (power in mW, load in percent)
Absent == [kind |-> "absent", value |-> 0]
Null == [kind |-> "null", value |-> 0]
Reading(v) == [kind |-> "value", value |-> v]

PowerSensors == {Absent, Null, Reading(0), Reading(45000)}
LoadSensors == {Absent, Reading(0), Reading(50)}

\* the sensors of one hardware item; raises: enumerating them throws
HardwareSensors ==
    [raises : {FALSE}, power : PowerSensors, load : LoadSensors]
        \cup {[raises |-> TRUE, power |-> Absent, load |-> Absent]}

\* psutil.cpu_percent(): raises, or a percentage
Failure == [ok |-> FALSE, value |-> 0]
Answer(v) == [ok |-> TRUE, value |-> v]
CpuPercents == {Failure, Answer(50)}
\* nvidia-smi: not available or unparsable, or a percentage
SmiAnswers == {Failure, Answer(0), Answer(40)}

\* one state of the machine as a get_power_readings() call sees it
HwStates ==
    [refresh_raises : BOOLEAN,       \* hardware.Update()
     cpu : HardwareSensors,
     gpu : HardwareSensors,
     cpu_percent_lhm : CpuPercents,  \* psutil inside _get_cpu_power_lhm
     cpu_percent_est : CpuPercents,  \* psutil inside the Tier B estimate
     smi_lhm : SmiAnswers,           \* nvidia-smi inside _get_gpu_power_lhm
     smi_est : SmiAnswers]           \* nvidia-smi inside the Tier B estimate

\* results of the helpers: an exception, or a value
Raise == [exc |-> TRUE]
Ok(v) == [exc |-> FALSE, val |-> v]

\* the value a loop "for sensor in Sensors: if match: data = sensor.Value"
\* leaves in a field initialised to 0
Scanned(sensor) ==
    IF sensor.kind = "absent" THEN [none |-> FALSE, value |-> 0]
    ELSE IF sensor.kind = "null" THEN [none |-> TRUE, value |-> 0]
    ELSE [none |-> FALSE, value |-> sensor.value]

\* _get_cpu_power_lhm, the try block
CpuPowerLhmTry(h, comps) ==
    IF h.cpu.raises THEN Raise
    ELSE LET power == Scanned(h.cpu.power)
             util == Scanned(h.cpu.load).value
         IN  IF power.none \/ power.value # 0
             THEN Ok([power |-> power.value, none |-> power.none,
                      utilization |-> util])
             ELSE IF "cpu" \notin DOMAIN comps THEN Raise
             ELSE IF util > 0
             THEN Ok([power |-> comps["cpu"] * util * CPU_UTILIZATION_SCALING,
                      none |-> FALSE, utilization |-> util])
             ELSE IF ~h.cpu_percent_lhm.ok THEN Raise
             ELSE Ok([power |-> comps["cpu"] * h.cpu_percent_lhm.value
                                    * CPU_UTILIZATION_SCALING,
                      none |-> FALSE, utilization |-> util])

\* _get_cpu_power_lhm: the except branch estimates from psutil, and what
\* it raises leaves the function
_get_cpu_power_lhm(h, comps) ==
    IF ~CpuPowerLhmTry(h, comps).exc THEN CpuPowerLhmTry(h, comps)
    ELSE IF "cpu" \notin DOMAIN comps THEN Raise
    ELSE IF ~h.cpu_percent_lhm.ok THEN Raise
    ELSE Ok([power |-> comps["cpu"] * h.cpu_percent_lhm.value
                           * CPU_UTILIZATION_SCALING,
             none |-> FALSE, utilization |-> h.cpu_percent_lhm.value])

\* _get_gpu_power_lhm, the try block
GpuPowerLhmTry(h, comps) ==
    IF h.gpu.raises THEN Raise
    ELSE LET power == Scanned(h.gpu.power)
             sensed == Scanned(h.gpu.load).value
             queried == IF h.smi_lhm.ok THEN h.smi_lhm.value ELSE sensed
             util == IF queried = 0 THEN DefaultGpuUtil ELSE queried
         IN  IF power.none \/ power.value # 0
             THEN Ok([power |-> power.value, none |-> power.none,
                      utilization |-> sensed])
             ELSE IF "gpu" \notin DOMAIN comps THEN Raise
             ELSE Ok([power |-> comps["gpu"] * util * GPU_UTILIZATION_SCALING,
                      none |-> FALSE, utilization |-> util])

\* _get_gpu_power_lhm: the except branch assumes 30% utilization
_get_gpu_power_lhm(h, comps) ==
    IF ~GpuPowerLhmTry(h, comps).exc THEN GpuPowerLhmTry(h, comps)
    ELSE IF "gpu" \notin DOMAIN comps THEN Raise
    ELSE Ok([power |-> comps["gpu"] * DefaultGpuUtil * GPU_UTILIZATION_SCALING,
             none |-> FALSE, utilization |-> DefaultGpuUtil])

\* W to mW
MilliWatts(w) == w * 1000

\* sum of the power values of the entries of a component_data mapping
RECURSIVE SumPower(_, _)
SumPower(data, keys) ==
    IF keys = {} THEN 0
    ELSE LET k == CHOOSE x \in keys : TRUE
         IN  data[k].power + SumPower(data, keys \ {k})

\* the fixed sample _estimate_power_consumption returns from its handler
DefaultSample ==
    [exc |-> FALSE, tier |-> "default", total |-> MilliWatts(100),
     data |-> [cpu |-> [power |-> MilliWatts(50)],
               gpu |-> [power |-> MilliWatts(30)],
               other |-> [power |-> MilliWatts(20)]]]

\* a Tier B total that leaves the idle addend out
TierBTotal_NoIdle(cpu_power, gpu_power, mb_power, memory_power, storage_power) ==
    0 + cpu_power + gpu_power + mb_power + memory_power + storage_power

\* total_power of the Tier B estimate: starts at 0, += each contribution,
\* += config.DEFAULT_IDLE_POWER
TierBTotal(cpu_power, gpu_power, mb_power, memory_power, storage_power) ==
    0 + cpu_power + gpu_power + mb_power + memory_power + storage_power
      + MilliWatts(DEFAULT_IDLE_POWER)

\* a query whose answer 0 is taken for "no answer"
EstimateGpuUtil_ZeroIsDefault(h) ==
    IF h.smi_est.ok /\ h.smi_est.value # 0 THEN h.smi_est.value
    ELSE DefaultGpuUtil

\* gpu_util of the Tier B estimate: 30, replaced by the answer of
\* nvidia-smi when the query succeeds and its output parses
EstimateGpuUtil(h) ==
    IF h.smi_est.ok THEN h.smi_est.value ELSE DefaultGpuUtil

\* _estimate_power_consumption, the try block (Tier B)
EstimateTry(h, comps) ==
    IF ~h.cpu_percent_est.ok \/ ComponentTypes \ DOMAIN comps # {}
    THEN Raise
    ELSE LET cpu_util == h.cpu_percent_est.value
             cpu_power == comps["cpu"] * cpu_util * CPU_UTILIZATION_SCALING
             gpu_util == EstimateGpuUtil(h)
             gpu_power == comps["gpu"] * gpu_util * GPU_UTILIZATION_SCALING
             mb_power == MilliWatts(comps["motherboard"])
             memory_power == MilliWatts(comps["memory"])
             storage_power == MilliWatts(comps["storage"])
         IN  [exc |-> FALSE, tier |-> "B",
              total |-> TierBTotal(cpu_power, gpu_power, mb_power,
                                   memory_power, storage_power),
              data |-> [cpu |-> [power |-> cpu_power,
                                 utilization |-> cpu_util],
                        gpu |-> [power |-> gpu_power,
                                 utilization |-> gpu_util],
                        motherboard |-> [power |-> mb_power],
                        memory |-> [power |-> memory_power],
                        storage |-> [power |-> storage_power],
                        idle |-> [power |-> MilliWatts(DEFAULT_IDLE_POWER)]]]

\* an estimate whose handler is missing: the exception leaves the function
Estimate_Propagates(h, comps) == EstimateTry(h, comps)

\* a handler that returns the locals of the failed try block: the CPU part
\* when the failure came after it, else nothing
_estimate_power_consumption_KeepsPartial(h, comps) ==
    IF ~EstimateTry(h, comps).exc THEN EstimateTry(h, comps)
    ELSE IF h.cpu_percent_est.ok /\ "cpu" \in DOMAIN comps
    THEN [exc |-> FALSE, tier |-> "default",
          total |-> comps["cpu"] * h.cpu_percent_est.value
                      * CPU_UTILIZATION_SCALING,
          data |-> [cpu |-> [power |-> comps["cpu"] * h.cpu_percent_est.value
                                         * CPU_UTILIZATION_SCALING]]]
    ELSE [exc |-> FALSE, tier |-> "default", total |-> 0, data |-> <<>>]

\* _estimate_power_consumption: any exception gives the default sample
_estimate_power_consumption(h, comps) ==
    IF EstimateTry(h, comps).exc THEN DefaultSample
    ELSE EstimateTry(h, comps)

\* get_power_readings, the try block (Tier A); total_power += None raises
LhmTry(h, comps) ==
    LET cpu == _get_cpu_power_lhm(h, comps)
        gpu == _get_gpu_power_lhm(h, comps)
    IN  IF h.refresh_raises THEN Raise
        ELSE IF cpu.exc THEN Raise
        ELSE IF cpu.val.none THEN Raise
        ELSE IF gpu.exc THEN Raise
        ELSE IF gpu.val.none THEN Raise
        ELSE IF {"motherboard", "memory", "storage"} \ DOMAIN comps # {}
        THEN Raise
        ELSE LET mb_power == MilliWatts(comps["motherboard"])
                 memory_power == MilliWatts(comps["memory"])
                 storage_power == MilliWatts(comps["storage"])
             IN  [exc |-> FALSE, tier |-> "A",
                  total |-> 0 + cpu.val.power + gpu.val.power + mb_power
                              + memory_power + storage_power,
                  data |-> [cpu |-> [power |-> cpu.val.power,
                                     utilization |-> cpu.val.utilization],
                            gpu |-> [power |-> gpu.val.power,
                                     utilization |-> gpu.val.utilization],
                            motherboard |-> [power |-> mb_power],
                            memory |-> [power |-> memory_power],
                            storage |-> [power |-> storage_power]]]

\* a handler that returns the locals of the failed Tier A block, here as
\* they are when the refresh raised, instead of calling the estimator
get_power_readings_ReturnsPartial(lhm, h, comps) ==
    IF lhm
    THEN IF LhmTry(h, comps).exc
         THEN [exc |-> FALSE, tier |-> "A", total |-> 0, data |-> <<>>]
         ELSE LhmTry(h, comps)
    ELSE _estimate_power_consumption(h, comps)

\* get_power_readings(): Tier A when the flag is set, Tier B when it is
\* not or when Tier A raised
get_power_readings(lhm, h, comps) ==
    IF lhm
    THEN IF LhmTry(h, comps).exc
         THEN _estimate_power_consumption(h, comps)
         ELSE LhmTry(h, comps)
    ELSE _estimate_power_consumption(h, comps)

NoSample == [exc |-> FALSE, tier |-> "none", total |-> 0, data |-> <<>>]

\* ------------------------------------------------------------- inventory
\* detect_hardware() on a Linux machine.  Each detector starts from its
\* default record, writes what it finds into that record as it goes, and
\* returns the record as it stands when its outer except branch is taken.
\* A Component is modelled by its name and max_power (W); the storage record
\* has a device list and no name.  "error" tells whether the outer except
\* branch ran.

\* one LibreHardwareMonitor hardware entry as a detector meets it: absent,
\* present without or with a "Package" power sensor, or present with an
\* Update() that raises
NoHardware == [present |-> FALSE, update_raises |-> FALSE, power_sensor |-> 0]

LhmHardware ==
    {NoHardware,
     [present |-> TRUE, update_raises |-> FALSE, power_sensor |-> 0],
     [present |-> TRUE, update_raises |-> FALSE, power_sensor |-> 95],
     [present |-> TRUE, update_raises |-> TRUE, power_sensor |-> 0]}

\* nvidia-smi --query-gpu=name and --query-gpu=power.default_limit
NvidiaSmi ==
    {[ok |-> FALSE, limit |-> 0], [ok |-> TRUE, limit |-> 0],
     [ok |-> TRUE, limit |-> 250]}

Machines ==
    [cpu_freq_raises : BOOLEAN,          \* psutil.cpu_freq()
     cpuinfo : {"", "cpuinfo CPU"},      \* model name in /proc/cpuinfo
     lhm_cpu : LhmHardware,
     smi : NvidiaSmi,
     lhm_gpu : LhmHardware,
     dmi : {"raises", "missing", "found"},  \* /sys/devices/virtual/dmi/id
     lhm_mb : {h \in LhmHardware : h.power_sensor = 0 /\ ~h.update_raises},
     vm_raises : BOOLEAN,                \* psutil.virtual_memory()
     sticks : {0, 1, 4},                 \* "Memory Device" count of dmidecode
     disks : {<<>>, <<"ssd">>, <<"ssd", "hdd">>},  \* psutil.disk_partitions()
     lhm_storage : {h \in LhmHardware : h.power_sensor = 0}]

NoMachine == CHOOSE m \in Machines : TRUE

Detected(info) == [info |-> info, error |-> FALSE]
DetectError(info) == [info |-> info, error |-> TRUE]

\* the record each detector starts from
DefaultComponent ==
    [cpu |-> [name |-> "Unknown CPU", max_power |-> DEFAULT_CPU_TDP],
     gpu |-> [name |-> "Unknown GPU", max_power |-> DEFAULT_GPU_TDP],
     motherboard |-> [name |-> "Unknown Motherboard",
                      max_power |-> DEFAULT_MOTHERBOARD_POWER],
     memory |-> [name |-> "System Memory",
                 max_power |-> DEFAULT_RAM_PER_STICK * 2],
     storage |-> [devices |-> <<>>, max_power |-> 0]]

\* the LibreHardwareMonitor part the CPU and GPU detectors share: take the
\* hardware's name, Update() it, take a Package/TDP power sensor as max_power
DetectFromLhm(info, h, name) ==
    IF ~h.present THEN Detected(info)
    ELSE LET named == [info EXCEPT !.name = name]
         IN  IF h.update_raises THEN DetectError(named)
             ELSE IF h.power_sensor # 0
             THEN Detected([named EXCEPT !.max_power = h.power_sensor])
             ELSE Detected(named)

_detect_cpu(lhm, m) ==
    IF m.cpu_freq_raises THEN DetectError(DefaultComponent["cpu"])
    ELSE LET info == IF m.cpuinfo # ""
                     THEN [DefaultComponent["cpu"] EXCEPT !.name = m.cpuinfo]
                     ELSE DefaultComponent["cpu"]
         IN  IF lhm THEN DetectFromLhm(info, m.lhm_cpu, "LHM CPU")
             ELSE Detected(info)

\* nvidia-smi gives the name and, when it answers, the power limit; with a
\* name known the lspci branch runs and nvidia-smi, asked again, puts its
\* name back
_detect_gpu(lhm, m) ==
    LET named == IF m.smi.ok
                 THEN [DefaultComponent["gpu"] EXCEPT !.name = "NVIDIA GPU"]
                 ELSE DefaultComponent["gpu"]
        info == IF m.smi.ok /\ m.smi.limit # 0
                THEN [named EXCEPT !.max_power = m.smi.limit]
                ELSE named
    IN  IF lhm THEN DetectFromLhm(info, m.lhm_gpu, "LHM GPU")
        ELSE Detected(info)

_detect_motherboard(lhm, m) ==
    LET info == CASE m.dmi = "raises" -> DefaultComponent["motherboard"]
                  [] m.dmi = "missing" ->
                       [DefaultComponent["motherboard"] EXCEPT
                           !.name = "Unknown Unknown"]
                  [] OTHER ->
                       [DefaultComponent["motherboard"] EXCEPT
                           !.name = "ASUS B550"]
    IN  IF lhm /\ m.lhm_mb.present
        THEN Detected([info EXCEPT !.name = "LHM Motherboard"])
        ELSE Detected(info)

_detect_memory(m) ==
    IF m.vm_raises THEN DetectError(DefaultComponent["memory"])
    ELSE IF m.sticks > 0
    THEN Detected([DefaultComponent["memory"] EXCEPT
                      !.max_power = DEFAULT_RAM_PER_STICK * m.sticks])
    ELSE Detected(DefaultComponent["memory"])

DevicePower(kind) ==
    IF kind = "ssd" THEN DEFAULT_SSD_POWER ELSE DEFAULT_HDD_POWER

RECURSIVE SumDevicePower(_)
SumDevicePower(disks) ==
    IF disks = <<>> THEN 0
    ELSE DevicePower(Head(disks)) + SumDevicePower(Tail(disks))

\* every partition is added to the record, then each LibreHardwareMonitor
\* storage entry is Update()d
_detect_storage(lhm, m) ==
    LET info == [devices |-> m.disks, max_power |-> SumDevicePower(m.disks)]
    IN  IF lhm /\ m.lhm_storage.present /\ m.lhm_storage.update_raises
        THEN DetectError(info)
        ELSE Detected(info)

detect_hardware(lhm, m) ==
    [cpu |-> _detect_cpu(lhm, m),
     gpu |-> _detect_gpu(lhm, m),
     motherboard |-> _detect_motherboard(lhm, m),
     memory |-> _detect_memory(m),
     storage |-> _detect_storage(lhm, m)]

NotDetected == [entries |-> <<>>, errors |-> {}]

\* __init__ calls detect_hardware(), which also sets self.components
Call_detect_hardware ==
    /\ detected = NotDetected
    /\ LET r == detect_hardware(lhm_initialized, machine)
       IN  /\ detected' = [entries |-> [c \in DOMAIN r |-> r[c].info],
                           errors |-> {c \in DOMAIN r : r[c].error}]
           /\ components' = [c \in DOMAIN r |-> r[c].info.max_power]
    /\ UNCHANGED <<lhm_initialized, hw, sample, prevTier, machine>>
    /\ UNCHANGED <<schedVars, storeVars, uiVars>>

\* a HardwareMonitor while __init__ runs, after _initialize_lhm, on some
\* machine
DetectInit ==
    /\ lhm_initialized \in BOOLEAN
    /\ components = <<>>
    /\ hw = CHOOSE h \in HwStates : TRUE
    /\ sample = NoSample
    /\ prevTier = NoSample.tier
    /\ machine \in Machines
    /\ detected = NotDetected

\* a HardwareMonitor after __init__, before any call, on some machine
EstInit ==
    /\ lhm_initialized \in BOOLEAN
    /\ components \in Inventories
    /\ hw \in HwStates
    /\ sample = NoSample
    /\ prevTier = NoSample.tier
    /\ machine = NoMachine
    /\ detected = NotDetected

\* a caller (the polling loop or the UI) takes a reading
Call_get_power_readings ==
    /\ sample = NoSample
    /\ sample' = get_power_readings(lhm_initialized, hw, components)
    /\ UNCHANGED <<lhm_initialized, components, hw, prevTier, machine, detected>>
    /\ UNCHANGED <<schedVars, storeVars, uiVars>>

\* between two calls hardware.Update() starts or stops raising; the caller
\* has consumed the reading
SensorsChange ==
    /\ sample # NoSample
    /\ hw' = [hw EXCEPT !.refresh_raises = ~hw.refresh_raises]
    /\ prevTier' = sample.tier
    /\ sample' = NoSample
    /\ UNCHANGED <<lhm_initialized, components, machine, detected>>
    /\ UNCHANGED <<schedVars, storeVars, uiVars>>

\* ----------------------------------------------------------------- store
\* Units: total_power in W, prices in cents per kWh (0.15 $ is 15), cost in
\* W * cent / 1000, total_energy in W*s (3.6e6 W*s are 1 kWh), usage_hours
\* in seconds; avg_power is the exact fraction num/den in lowest terms.
DEFAULT_KWH_COST == 15

Powers == {100, 200}
Prices == {DEFAULT_KWH_COST, 20}
\* the (total_power, kwh_cost) a consumer passes to save_power_reading
Samples == [power : Powers, kwh : Prices]
\* the samples of the two-database comparison: one price
PairSamples == [power : Powers, kwh : {DEFAULT_KWH_COST}]

\* the clock moves in steps of 6 hours; local time is UTC-6, UTC or UTC+6
\* the intervals a caller passes to start_monitoring: the default, or 10 s
PollIntervals == {DEFAULT_POLLING_INTERVAL, 10}

ClockSteps == {6}
TzOffsets == {0 - 6, 0, 6}

\* SQL date(timestamp) of a CURRENT_TIMESTAMP value: the UTC calendar day
UtcDate(ts) == ts \div 24

\* datetime.date.today(): the local calendar day
Today(now, tz) == (now + tz) \div 24

RECURSIVE GCD(_, _)
GCD(a, b) == IF b = 0 THEN a ELSE GCD(b, a % b)

\* a / b as a fraction in lowest terms
Ratio(a, b) == [num |-> a \div GCD(a, b), den |-> b \div GCD(a, b)]

\* sum(...) of a sequence of numbers, in order
RECURSIVE SumSeq(_)
SumSeq(xs) == IF xs = <<>> THEN 0 ELSE Head(xs) + SumSeq(Tail(xs))

\* max(r['total_power'] for r in rows)
RECURSIVE MaxPower(_)
MaxPower(rows) ==
    IF Len(rows) = 1 THEN rows[1].total_power
    ELSE LET m == MaxPower(Tail(rows))
         IN  IF rows[1].total_power >= m THEN rows[1].total_power ELSE m

\* INSERT INTO power_readings (total_power, component_data, cost): the
\* timestamp defaults to CURRENT_TIMESTAMP, which is UTC.  The fields day
\* (local date of the call) and kwh are not columns: they record the
\* delivery for the properties below.
InsertReading(readings, power, kwh, now, tz) ==
    Append(readings, [id |-> Len(readings) + 1,
                      timestamp |-> now,
                      total_power |-> power,
                      cost |-> power * kwh,
                      day |-> Today(now, tz),
                      kwh |-> kwh])

\* SELECT * FROM power_readings WHERE date(timestamp) = date(today)
ReadingsOf(readings, today) ==
    SelectSeq(readings, LAMBDA r : UtcDate(r.timestamp) = today)

\* the rows of table daily_power with date d
RowsOfDate(daily, d) == SelectSeq(daily, LAMBDA r : r.date = d)

\* an INSERT into a table that has no key on date: the row is added
InsertOrReplace_NoKey(daily, row) == Append(daily, row)

\* INSERT OR REPLACE INTO daily_power: date is the PRIMARY KEY, the row that
\* holds the date is deleted and the new row is inserted
InsertOrReplace(daily, row) ==
    Append(SelectSeq(daily, LAMBDA r : r.date # row.date), row)

\* the aggregated values _update_daily_aggregation computes from the rows
Aggregate(rows) ==
    LET total_power == SumSeq([i \in 1..Len(rows) |-> rows[i].total_power])
        hours_per_reading == DEFAULT_POLLING_INTERVAL
    IN  [avg_power |-> Ratio(total_power, Len(rows)),
         max_power |-> MaxPower(rows),
         total_energy |-> SumSeq([i \in 1..Len(rows) |->
                                     rows[i].total_power * hours_per_reading]),
         cost |-> SumSeq([i \in 1..Len(rows) |-> rows[i].cost]),
         usage_hours |-> Len(rows) * hours_per_reading]

\* _update_daily_aggregation: nothing without rows, else INSERT OR REPLACE
\* of the row of today
_update_daily_aggregation(daily, readings, today) ==
    IF ReadingsOf(readings, today) = <<>> THEN daily
    ELSE InsertOrReplace(daily, [date |-> today]
                                   @@ Aggregate(ReadingsOf(readings, today)))

\* the row 'kwh_cost' of table settings: no such row, or its value column,
\* a text that float() converts to a number or one that it rejects
NoRow == [kind |-> "absent", value |-> 0]
Unparsable == [kind |-> "text", value |-> 0]

\* str(cost) of a number
Str(cost) == [kind |-> "number", value |-> cost]

\* float(row['value']): ValueError when the text is not a number
Float(row) == IF row.kind = "number" THEN Ok(row.value) ELSE Raise

\* the arguments of set_kwh_cost: -1, 0 and two prices
CostArgs == {0 - 1, 0} \cup Prices

\* the row an existing database file may hold
SettingsRows == {NoRow, Unparsable} \cup {Str(c) : c \in CostArgs}

\* UPDATE settings SET value = ? WHERE key = 'kwh_cost'
UpdateSetting(row, cost) == IF row.kind = "absent" THEN row ELSE Str(cost)

\* the settings row after set_kwh_cost(cost); upd_fails, ins_fails: the
\* UPDATE, and the INSERT OR REPLACE of the handler, raise sqlite3.Error
SetKwhCost(row, cost, upd_fails, ins_fails) ==
    IF ~upd_fails THEN UpdateSetting(row, cost)
    ELSE IF ~ins_fails THEN Str(cost)
    ELSE row

\* the value get_kwh_cost() returns, or the exception that leaves it
GetKwhCost(row, select_fails) ==
    IF select_fails THEN Ok(DEFAULT_KWH_COST)
    ELSE IF row.kind # "absent" THEN Float(row)
    ELSE Ok(DEFAULT_KWH_COST)

NoCall == [op |-> "none", cost |-> 0, before |-> NoRow, db_error |-> FALSE,
           raised |-> FALSE, returned |-> 0]

NoSave == [id |-> 0, today |-> 0, rows |-> {}, power |-> 0, kwh |-> 0,
           retry |-> FALSE]

\* no get_daily_power_data result is held
NoQuery == [days |-> 0, result |-> <<>>]

\* DataStorage() on a new database file, at 00:00 UTC of day 1
StoreInit ==
    /\ power_readings = <<>>
    /\ daily_power = <<>>
    /\ settings_kwh = [kind |-> "number", value |-> DEFAULT_KWH_COST]
    /\ utcNow = 24
    /\ tzOffset \in TzOffsets
    /\ lastSave = NoSave
    /\ lastCall = NoCall
    /\ poll_interval \in PollIntervals
    /\ power_readings2 = <<>>
    /\ daily_power2 = <<>>
    /\ lastQuery = NoQuery

StoreIdle ==
    /\ power_readings = <<>>
    /\ daily_power = <<>>
    /\ settings_kwh = [kind |-> "number", value |-> DEFAULT_KWH_COST]
    /\ utcNow = 24
    /\ tzOffset = 0
    /\ lastSave = NoSave
    /\ lastCall = NoCall
    /\ poll_interval = DEFAULT_POLLING_INTERVAL
    /\ power_readings2 = <<>>
    /\ daily_power2 = <<>>
    /\ lastQuery = NoQuery

\* the kwh_cost argument: a price, or None (not given)
KwhArgs == [given : {TRUE}, value : Prices] \cup {[given |-> FALSE, value |-> 0]}

\* the price save_power_reading works with: the argument, or the stored one
EffectiveKwh(arg) == IF arg.given THEN arg.value ELSE settings_kwh.value

\* save_power_reading(total_power, component_data, kwh_cost): insert at the
\* current time, then aggregate the day date.today() names when it is read;
\* adv > 0 when the clock has entered the next slot in between
Save(power, arg, adv, retry) ==
    LET kwh == EffectiveKwh(arg)
        inserted == InsertReading(power_readings, power, kwh, utcNow, tzOffset)
        today == Today(utcNow + adv, tzOffset)
    IN  /\ Len(power_readings) < MaxReadings
        /\ utcNow + adv <= MaxClock
        /\ IF ~arg.given /\ Float(settings_kwh).exc
           THEN \* fetchone()['value'] or float() raises before the INSERT
                UNCHANGED <<power_readings, daily_power, utcNow, lastSave>>
           ELSE /\ power_readings' = inserted
                /\ daily_power' =
                      _update_daily_aggregation(daily_power, inserted, today)
                /\ utcNow' = utcNow + adv
                /\ lastSave' =
                      [id |-> Len(inserted), today |-> today,
                       rows |-> {ReadingsOf(inserted, today)[i].id :
                                   i \in 1..Len(ReadingsOf(inserted, today))},
                       power |-> power, kwh |-> kwh, retry |-> retry]
        /\ UNCHANGED <<settings_kwh, tzOffset, poll_interval, lastCall>>

save_power_reading(power, arg, adv) ==
    /\ Save(power, arg, adv, FALSE)
    /\ UNCHANGED <<power_readings2, daily_power2>>
    /\ lastQuery' = NoQuery
    /\ UNCHANGED <<schedVars, estVars, uiVars>>

\* the consumer delivers the sample of its last call once more
retry_save_power_reading(adv) ==
    /\ lastSave # NoSave
    /\ Save(lastSave.power, [given |-> TRUE, value |-> lastSave.kwh], adv, TRUE)
    /\ UNCHANGED <<power_readings2, daily_power2>>
    /\ lastQuery' = NoQuery
    /\ UNCHANGED <<schedVars, estVars, uiVars>>

\* time passes between calls
AdvanceClock(step) ==
    /\ utcNow + step <= MaxClock
    /\ utcNow' = utcNow + step
    /\ UNCHANGED <<power_readings, daily_power, settings_kwh, tzOffset,
                   lastSave, lastCall, poll_interval, power_readings2,
                   daily_power2>>
    /\ lastQuery' = NoQuery
    /\ UNCHANGED <<schedVars, estVars, uiVars>>

\* set_kwh_cost(cost): UPDATE, and INSERT OR REPLACE when the UPDATE raised;
\* a second sqlite3.Error is printed; the call returns None
set_kwh_cost(cost, upd_fails, ins_fails) ==
    /\ settings_kwh' = SetKwhCost(settings_kwh, cost, upd_fails, ins_fails)
    /\ lastCall' = [op |-> "set", cost |-> cost, before |-> settings_kwh,
                    db_error |-> upd_fails, raised |-> FALSE, returned |-> 0]
    /\ UNCHANGED <<power_readings, daily_power, utcNow, tzOffset, lastSave,
                   poll_interval, power_readings2, daily_power2>>
    /\ lastQuery' = NoQuery
    /\ UNCHANGED <<schedVars, estVars, uiVars>>

\* get_kwh_cost(): the stored value as a float; without a row it calls
\* set_kwh_cost(DEFAULT_KWH_COST) and returns the default; a sqlite3.Error
\* gives the default too
get_kwh_cost(select_fails) ==
    LET result == GetKwhCost(settings_kwh, select_fails)
    IN  /\ settings_kwh' =
              IF ~select_fails /\ settings_kwh.kind = "absent"
              THEN SetKwhCost(settings_kwh, DEFAULT_KWH_COST, FALSE, FALSE)
              ELSE settings_kwh
        /\ lastCall' = [op |-> "get", cost |-> lastCall.cost,
                        before |-> settings_kwh,
                        db_error |-> select_fails \/ lastCall.db_error,
                        raised |-> result.exc,
                        returned |-> IF result.exc THEN 0 ELSE result.val]
        /\ UNCHANGED <<power_readings, daily_power, utcNow, tzOffset, lastSave,
                       poll_interval, power_readings2, daily_power2>>
        /\ lastQuery' = NoQuery
        /\ UNCHANGED <<schedVars, estVars, uiVars>>

\* the same call on two databases at the same moment, each with its sample
pair_save_power_reading(a, b) ==
    /\ Save(a.power, [given |-> TRUE, value |-> a.kwh], 0, FALSE)
    /\ power_readings2' =
          InsertReading(power_readings2, b.power, b.kwh, utcNow, tzOffset)
    /\ daily_power2' =
          _update_daily_aggregation(
              daily_power2,
              InsertReading(power_readings2, b.power, b.kwh, utcNow, tzOffset),
              Today(utcNow, tzOffset))
    /\ lastQuery' = NoQuery
    /\ UNCHANGED <<schedVars, estVars, uiVars>>

\* datetime.date.isoformat() of a calendar day, as the fields of its text
\* YYYY-MM-DD; day 0 is 2023-12-30, so that day 2 is 2024-01-01
IsoFormat(d) ==
    IF d >= 2 THEN <<2024, 1, d - 1>> ELSE <<2023, 12, 30 + d>>

\* SQLite's comparison of two such TEXT values: field by field from the
\* left, the fields having fixed width
IsoLeq(a, b) ==
    \/ a[1] < b[1]
    \/ a[1] = b[1] /\ a[2] < b[2]
    \/ a[1] = b[1] /\ a[2] = b[2] /\ a[3] <= b[3]

\* a start_date that goes back one day too many
StartDate_OffByOne(end_date, days) == end_date - days

\* end_date - datetime.timedelta(days=days-1)
StartDate(end_date, days) == end_date - (days - 1)

\* ORDER BY date: the row with the least date first
RECURSIVE OrderByDate(_)
OrderByDate(rows) ==
    IF rows = <<>> THEN <<>>
    ELSE LET first == CHOOSE i \in 1..Len(rows) :
                          \A j \in 1..Len(rows) :
                              IsoLeq(IsoFormat(rows[i].date),
                                     IsoFormat(rows[j].date))
         IN  <<rows[first]>> \o
             OrderByDate(SubSeq(rows, 1, first - 1) \o
                         SubSeq(rows, first + 1, Len(rows)))

\* SELECT * FROM daily_power WHERE date >= start AND date <= end ORDER BY
\* date, with both bounds passed as isoformat() text
GetDailyPowerData(daily, end_date, days) ==
    LET lo == IsoFormat(StartDate(end_date, days))
        hi == IsoFormat(end_date)
    IN  OrderByDate(SelectSeq(daily, LAMBDA r :
                                  /\ IsoLeq(lo, IsoFormat(r.date))
                                  /\ IsoLeq(IsoFormat(r.date), hi)))

\* the day counts a caller asks for (the UI asks for 7 and 30)
QueryDays == {1, 2}

get_daily_power_data(days) ==
    /\ lastQuery' =
          [days |-> days,
           result |-> GetDailyPowerData(daily_power,
                                        Today(utcNow, tzOffset), days)]
    /\ UNCHANGED <<power_readings, daily_power, settings_kwh, utcNow,
                   tzOffset, lastSave, lastCall, poll_interval,
                   power_readings2, daily_power2>>
    /\ UNCHANGED <<schedVars, estVars, uiVars>>

\* -------------------------------------------------------------------- ui
\* PowerMonitorUI (ui.py): the price entry is bound to the DoubleVar
\* kwh_cost, __init__ loads it with get_kwh_cost(); the HardwareMonitor
\* calls _on_power_reading on its polling thread; the DataStorage and its
\* one connection and cursor were made by the thread that built the UI.

\* what the entry can hold: a number, or text that is no number
EntryValues == {Str(c) : c \in CostArgs} \cup {Unparsable}

NoProjection == [price |-> 0, power |-> 0, valid |-> 0]

\* the thread that ran DataStorage.__init__ (sqlite3.connect)
ConnThread == "main"

\* the threads _monitor_loop calls the callback on
CallbackThreads == {"poller"}

\* sqlite3.connect(db_path, timeout=30.0, isolation_level=None) leaves
\* check_same_thread at its default: a connection or cursor used from a
\* thread other than the one that made it raises sqlite3.ProgrammingError
CheckSameThread(thread) == thread = ConnThread

UiIdle ==
    /\ kwh_cost = Str(DEFAULT_KWH_COST)
    /\ current_cost = NoProjection
    /\ validPrice = DEFAULT_KWH_COST
    /\ received = 0

\* the user types into the price entry
EditEntry(v) ==
    /\ v # kwh_cost
    /\ kwh_cost' = v
    /\ UNCHANGED <<current_cost, validPrice, received>>
    /\ UNCHANGED <<schedVars, estVars, storeVars>>

\* _save_settings (the Save button): DoubleVar.get() raises TclError on text
\* that is no number and the handler shows the error; a value <= 0 is
\* refused; any other value goes to set_kwh_cost
_save_settings ==
    /\ IF Float(kwh_cost).exc \/ kwh_cost.value <= 0
       THEN UNCHANGED <<settings_kwh, validPrice>>
       ELSE /\ settings_kwh' =
                  SetKwhCost(settings_kwh, kwh_cost.value, FALSE, FALSE)
            /\ validPrice' = kwh_cost.value
    /\ lastCall' = [op |-> "save_settings", cost |-> kwh_cost.value,
                    before |-> settings_kwh, db_error |-> FALSE,
                    raised |-> Float(kwh_cost).exc, returned |-> 0]
    /\ lastQuery' = NoQuery
    /\ UNCHANGED <<power_readings, daily_power, utcNow, tzOffset, lastSave,
                   poll_interval, power_readings2, daily_power2>>
    /\ UNCHANGED <<kwh_cost, current_cost, received>>
    /\ UNCHANGED <<schedVars, estVars>>

\* _on_power_reading(total_power, component_data) on the given thread.
\* tk_raises: the first Tk call made off the main thread raises
\* RuntimeError (main loop not running yet); every exception ends in the
\* handler's except branch, which prints it
_on_power_reading(thread, power, tk_raises) ==
    /\ received < MaxReadings
    /\ received' = received + 1
    /\ IF tk_raises \/ Float(kwh_cost).exc
       THEN UNCHANGED <<current_cost, power_readings, daily_power, lastSave>>
       ELSE /\ current_cost' = [price |-> kwh_cost.value, power |-> power,
                                valid |-> validPrice]
            /\ IF ~CheckSameThread(thread)
               THEN UNCHANGED <<power_readings, daily_power, lastSave>>
               ELSE LET inserted == InsertReading(power_readings, power,
                                                  kwh_cost.value, utcNow,
                                                  tzOffset)
                        today == Today(utcNow, tzOffset)
                    IN  /\ power_readings' = inserted
                        /\ daily_power' =
                              _update_daily_aggregation(daily_power,
                                                        inserted, today)
                        /\ lastSave' =
                              [id |-> Len(inserted), today |-> today,
                               rows |-> {ReadingsOf(inserted, today)[i].id :
                                   i \in 1..Len(ReadingsOf(inserted, today))},
                               power |-> power, kwh |-> kwh_cost.value,
                               retry |-> FALSE]
    /\ lastQuery' = NoQuery
    /\ UNCHANGED <<settings_kwh, utcNow, tzOffset, lastCall, poll_interval,
                   power_readings2, daily_power2>>
    /\ UNCHANGED <<kwh_cost, validPrice>>
    /\ UNCHANGED <<schedVars, estVars>>

\* ------------------------------------------------------------- scheduler
Alive(t) == pc[t] \notin {"none", "done"}
InTick(t) == pc[t] \in {"sample", "deliver", "callback"}
Sleeping(t) == pc[t] \in {"sleep", "backoff"}

NoApi == [op |-> "none", again |-> FALSE, was_running |-> FALSE,
          interval |-> 0]

\* HardwareMonitor.__init__: not running, no thread
SchedInit ==
    /\ callback \in BOOLEAN
    /\ running = FALSE
    /\ monitor_thread = 0
    /\ fg = "idle"
    /\ joinLeft = 0
    /\ pc = [t \in Threads |-> "none"]
    /\ thInterval = [t \in Threads |-> 0]
    /\ sleepLeft = [t \in Threads |-> 0]
    /\ cur = [t \in Threads |-> 0]
    /\ nThreads = 0
    /\ ticks = 0
    /\ nProduced = 0
    /\ delivered = <<>>
    /\ joined = {}
    /\ failed = [t \in Threads |-> FALSE]
    /\ lastApi = NoApi

\* the part of the state a specification does not exercise stays as built
EstIdle ==
    /\ lhm_initialized = FALSE
    /\ components = DetectedComponents
    /\ hw = CHOOSE h \in HwStates : TRUE
    /\ sample = NoSample
    /\ prevTier = NoSample.tier
    /\ machine = NoMachine
    /\ detected = NotDetected

SchedIdle ==
    /\ callback = TRUE
    /\ running = FALSE
    /\ monitor_thread = 0
    /\ fg = "idle"
    /\ joinLeft = 0
    /\ pc = [t \in Threads |-> "none"]
    /\ thInterval = [t \in Threads |-> 0]
    /\ sleepLeft = [t \in Threads |-> 0]
    /\ cur = [t \in Threads |-> 0]
    /\ nThreads = 0
    /\ ticks = 0
    /\ nProduced = 0
    /\ delivered = <<>>
    /\ joined = {}
    /\ failed = [t \in Threads |-> FALSE]
    /\ lastApi = NoApi

\* a start_monitoring without the "if self.running: return" line
start_monitoring_NoRunningCheck(interval) ==
    /\ fg = "idle"
    /\ nThreads < MaxThreads
    /\ running' = TRUE
    /\ nThreads' = nThreads + 1
    /\ monitor_thread' = nThreads + 1
    /\ pc' = [pc EXCEPT ![nThreads + 1] = "check"]
    /\ thInterval' = [thInterval EXCEPT ![nThreads + 1] = interval]
    /\ UNCHANGED <<estVars, storeVars, uiVars, callback, fg, joinLeft, sleepLeft, cur, ticks,
                   nProduced, delivered, joined, failed>>

\* start_monitoring(interval): no-op when running, else a new thread
start_monitoring(interval) ==
    /\ fg = "idle"
    /\ IF running
       THEN UNCHANGED <<monitorVars, estVars, storeVars, uiVars>>
       ELSE /\ nThreads < MaxThreads
            /\ running' = TRUE
            /\ nThreads' = nThreads + 1
            /\ monitor_thread' = nThreads + 1
            /\ pc' = [pc EXCEPT ![nThreads + 1] = "check"]
            /\ thInterval' = [thInterval EXCEPT ![nThreads + 1] = interval]
            /\ UNCHANGED <<estVars, storeVars, uiVars, callback, fg, joinLeft, sleepLeft, cur, ticks,
                           nProduced, delivered, joined, failed>>

\* stop_monitoring(), up to the join: clear the flag, then wait for the
\* thread at most JoinTimeout seconds
stop_monitoring ==
    /\ fg = "idle"
    /\ running' = FALSE
    /\ IF monitor_thread # 0
       THEN /\ fg' = "joining"
            /\ joinLeft' = JoinTimeout
       ELSE UNCHANGED <<fg, joinLeft>>
    /\ UNCHANGED <<estVars, storeVars, uiVars, callback, monitor_thread, pc, thInterval, sleepLeft, cur,
                   nThreads, ticks, nProduced, delivered, joined, failed>>

\* a stop_monitoring that keeps the reference to the thread it joined
stop_return_KeepsThread ==
    /\ fg = "joining"
    /\ pc[monitor_thread] = "done" \/ joinLeft = 0
    /\ fg' = "idle"
    /\ joinLeft' = 0
    /\ joined' = joined \cup {monitor_thread}
    /\ UNCHANGED <<estVars, storeVars, uiVars, lastApi, callback, running, monitor_thread, pc, thInterval,
                   sleepLeft, cur, nThreads, ticks, nProduced, delivered, failed>>

\* join(timeout=1.0) returns when the thread has exited or the timeout has
\* elapsed; stop_monitoring then drops the reference and returns
stop_return ==
    /\ fg = "joining"
    /\ pc[monitor_thread] = "done" \/ joinLeft = 0
    /\ fg' = "idle"
    /\ joinLeft' = 0
    /\ joined' = joined \cup {monitor_thread}
    /\ monitor_thread' = 0
    /\ UNCHANGED <<estVars, storeVars, uiVars, lastApi, callback, running, pc, thInterval, sleepLeft, cur,
                   nThreads, ticks, nProduced, delivered, failed>>

\* a loop condition that does not read the flag (while True)
LoopCheck_IgnoresFlag(t) ==
    /\ pc[t] = "check"
    /\ ticks < MaxTicks
    /\ ticks' = ticks + 1
    /\ pc' = [pc EXCEPT ![t] = "sample"]
    /\ UNCHANGED <<estVars, storeVars, uiVars, lastApi, callback, running, monitor_thread, fg,
                   joinLeft, thInterval, sleepLeft, cur, nThreads, nProduced,
                   delivered, joined, failed>>

\* while self.running:
LoopCheck(t) ==
    /\ pc[t] = "check"
    /\ IF running
       THEN /\ ticks < MaxTicks
            /\ ticks' = ticks + 1
            /\ pc' = [pc EXCEPT ![t] = "sample"]
       ELSE /\ pc' = [pc EXCEPT ![t] = "done"]
            /\ UNCHANGED ticks
    /\ UNCHANGED <<estVars, storeVars, uiVars, lastApi, callback, running, monitor_thread, fg, joinLeft,
                   thInterval, sleepLeft, cur, nThreads, nProduced,
                   delivered, joined, failed>>

\* a loop without the handler: the exception ends the thread
Backoff_EndsLoop(t) ==
    /\ pc' = [pc EXCEPT ![t] = "done"]
    /\ cur' = [cur EXCEPT ![t] = 0]
    /\ failed' = [failed EXCEPT ![t] = TRUE]
    /\ UNCHANGED sleepLeft

\* except Exception: time.sleep(1)
Backoff(t) ==
    /\ pc' = [pc EXCEPT ![t] = "backoff"]
    /\ sleepLeft' = [sleepLeft EXCEPT ![t] = BackoffSeconds]
    /\ cur' = [cur EXCEPT ![t] = 0]
    /\ failed' = [failed EXCEPT ![t] = TRUE]

\* time.sleep(interval)
IntervalSleep(t) ==
    /\ pc' = [pc EXCEPT ![t] = "sleep"]
    /\ sleepLeft' = [sleepLeft EXCEPT ![t] = thInterval[t]]
    /\ cur' = [cur EXCEPT ![t] = 0]

\* total_power, component_data = self.get_power_readings()
SampleReturn(t) ==
    /\ pc[t] = "sample"
    /\ nProduced' = nProduced + 1
    /\ IF callback
       THEN /\ pc' = [pc EXCEPT ![t] = "deliver"]
            /\ cur' = [cur EXCEPT ![t] = nProduced + 1]
            /\ UNCHANGED sleepLeft
       ELSE IntervalSleep(t)
    /\ UNCHANGED <<estVars, storeVars, uiVars, lastApi, callback, running, monitor_thread, fg, joinLeft,
                   thInterval, nThreads, ticks, delivered, joined, failed>>

\* the handler of line 678 also guards the Estimator call
SampleRaise(t) ==
    /\ pc[t] = "sample"
    /\ Backoff(t)
    /\ UNCHANGED <<estVars, storeVars, uiVars, lastApi, callback, running, monitor_thread, fg, joinLeft,
                   thInterval, nThreads, ticks, nProduced, delivered, joined>>

\* self.callback(total_power, component_data): the call is made
CallbackCall(t) ==
    /\ pc[t] = "deliver"
    /\ delivered' = Append(delivered, cur[t])
    /\ pc' = [pc EXCEPT ![t] = "callback"]
    /\ UNCHANGED <<estVars, storeVars, uiVars, lastApi, callback, running, monitor_thread, fg, joinLeft,
                   thInterval, sleepLeft, cur, nThreads, ticks, nProduced,
                   joined, failed>>

\* the callback returns; time.sleep(interval)
CallbackReturn(t) ==
    /\ pc[t] = "callback"
    /\ IntervalSleep(t)
    /\ UNCHANGED <<estVars, storeVars, uiVars, lastApi, callback, running, monitor_thread, fg, joinLeft,
                   thInterval, nThreads, ticks, nProduced, delivered, joined,
                   failed>>

\* the callback raises
CallbackRaise(t) ==
    /\ pc[t] = "callback"
    /\ Backoff(t)
    /\ UNCHANGED <<estVars, storeVars, uiVars, lastApi, callback, running, monitor_thread, fg, joinLeft,
                   thInterval, nThreads, ticks, nProduced, delivered, joined>>

\* time.sleep returns, back to the loop condition
Wake(t) ==
    /\ Sleeping(t)
    /\ sleepLeft[t] = 0
    /\ pc' = [pc EXCEPT ![t] = "check"]
    /\ UNCHANGED <<estVars, storeVars, uiVars, lastApi, callback, running, monitor_thread, fg, joinLeft,
                   thInterval, sleepLeft, cur, nThreads, ticks, nProduced,
                   delivered, joined, failed>>

\* one second passes: every running sleep and the join timeout count down;
\* a sleep or a join whose time is up returns before more time passes
Tick ==
    /\ \A t \in Threads : Sleeping(t) => sleepLeft[t] > 0
    /\ fg = "joining" => joinLeft > 0
    /\ (fg = "joining") \/ (\E t \in Threads : Sleeping(t))
    /\ sleepLeft' = [t \in Threads |->
                        IF Sleeping(t) THEN sleepLeft[t] - 1 ELSE sleepLeft[t]]
    /\ joinLeft' = IF fg = "joining" THEN joinLeft - 1 ELSE joinLeft
    /\ UNCHANGED <<estVars, storeVars, uiVars, lastApi, callback, running, monitor_thread, fg, pc, thInterval, cur,
                   nThreads, ticks, nProduced, delivered, joined, failed>>

\* Tick when every thread that is neither sleeping nor inside the Estimator
\* or the callback has taken its step: reading the flag and making the call
\* take no time
PromptTick ==
    /\ \A t \in Threads : pc[t] \notin {"check", "deliver"}
    /\ Tick

ThreadStep(t) ==
    \/ LoopCheck(t)
    \/ SampleReturn(t)
    \/ SampleRaise(t)
    \/ CallbackCall(t)
    \/ CallbackReturn(t)
    \/ CallbackRaise(t)
    \/ Wake(t)

Init == SchedInit /\ EstIdle /\ StoreIdle /\ UiIdle

Next ==
    \/ \E i \in Intervals : start_monitoring(i) /\ UNCHANGED lastApi
    \/ stop_monitoring /\ UNCHANGED lastApi
    \/ stop_return
    \/ \E t \in Threads : LoopCheck(t)
    \/ \E t \in Threads : SampleReturn(t)
    \/ \E t \in Threads : SampleRaise(t)
    \/ \E t \in Threads : CallbackCall(t)
    \/ \E t \in Threads : CallbackReturn(t)
    \/ \E t \in Threads : CallbackRaise(t)
    \/ \E t \in Threads : Wake(t)
    \/ Tick

Spec == Init /\ [][Next]_vars

\* the same program when threads are scheduled promptly
PromptNext ==
    \/ \E i \in Intervals : start_monitoring(i) /\ UNCHANGED lastApi
    \/ stop_monitoring /\ UNCHANGED lastApi
    \/ stop_return
    \/ \E t \in Threads : ThreadStep(t)
    \/ PromptTick

PromptSpec == Init /\ [][PromptNext]_vars

\* intervals callers pass to start_monitoring(interval=DEFAULT_POLLING_INTERVAL)
ApiIntervals == {1, DEFAULT_POLLING_INTERVAL}

\* a caller of the two scheduler operations, with the call it makes kept
\* in lastApi: which operation, whether it repeats the operation called
\* before it, the flag it found and the interval it asked for
call_start_monitoring(interval) ==
    /\ start_monitoring(interval)
    /\ lastApi' = [op |-> "start", again |-> lastApi.op = "start",
                   was_running |-> running, interval |-> interval]

call_stop_monitoring ==
    /\ stop_monitoring
    /\ lastApi' = [op |-> "stop", again |-> lastApi.op = "stop",
                   was_running |-> running, interval |-> 0]

\* the scheduler under callers that start with any interval and stop, in
\* any order
ApiNext ==
    \/ \E i \in ApiIntervals : call_start_monitoring(i)
    \/ call_stop_monitoring
    \/ stop_return
    \/ \E t \in Threads : ThreadStep(t)
    \/ Tick

ApiSpec == Init /\ [][ApiNext]_vars

\* the Inventory on its own: every machine, one detection pass
DetectSpecInit == DetectInit /\ SchedIdle /\ StoreIdle /\ UiIdle

DetectNext == Call_detect_hardware

DetectSpec == DetectSpecInit /\ [][DetectNext]_vars

\* the Estimator on its own: every machine state, one call
EstimatorInit == EstInit /\ SchedIdle /\ StoreIdle /\ UiIdle

EstimatorNext == Call_get_power_readings

EstimatorSpec == EstimatorInit /\ [][EstimatorNext]_vars

\* the Estimator called again and again while the sensor refresh comes and
\* goes; within one call psutil and nvidia-smi answer alike at both places
\* they are asked
FallbackInit ==
    /\ EstInit
    /\ UiIdle
    /\ hw.cpu_percent_lhm = hw.cpu_percent_est
    /\ hw.smi_lhm = hw.smi_est
    /\ SchedIdle
    /\ StoreIdle

FallbackNext ==
    \/ Call_get_power_readings
    \/ SensorsChange

FallbackSpec == FallbackInit /\ [][FallbackNext]_vars

\* the store on its own
StoreSpecInit == StoreInit /\ SchedIdle /\ EstIdle /\ UiIdle

StoreNext ==
    \/ \E p \in Powers, a \in KwhArgs, adv \in ClockSteps \cup {0} :
          save_power_reading(p, a, adv)
    \/ \E adv \in ClockSteps \cup {0} : retry_save_power_reading(adv)
    \/ \E step \in ClockSteps : AdvanceClock(step)

StoreSpec == StoreSpecInit /\ [][StoreNext]_vars

\* the store on a machine whose local time is UTC
UtcStoreInit == StoreSpecInit /\ tzOffset = 0

UtcStoreSpec == UtcStoreInit /\ [][StoreNext]_vars

\* the store when no call spans the passage into the next clock slot
SteadyStoreNext ==
    \/ \E p \in Powers, a \in KwhArgs : save_power_reading(p, a, 0)
    \/ retry_save_power_reading(0)
    \/ \E step \in ClockSteps : AdvanceClock(step)

SteadyStoreSpec == StoreSpecInit /\ [][SteadyStoreNext]_vars

\* the settings store: DataStorage() on a new database file (the default
\* price is stored) or on an existing one, then price calls with samples
\* saved in between
SettingsInit ==
    /\ SchedIdle
    /\ EstIdle
    /\ UiIdle
    /\ power_readings = <<>>
    /\ daily_power = <<>>
    /\ settings_kwh \in {Str(DEFAULT_KWH_COST)} \cup SettingsRows
    /\ utcNow = 24
    /\ tzOffset = 0
    /\ lastSave = NoSave
    /\ lastCall = NoCall
    /\ poll_interval = DEFAULT_POLLING_INTERVAL
    /\ power_readings2 = <<>>
    /\ daily_power2 = <<>>
    /\ lastQuery = NoQuery

SettingsNext ==
    \/ \E c \in CostArgs, upd_fails \in BOOLEAN, ins_fails \in BOOLEAN :
          set_kwh_cost(c, upd_fails, ins_fails)
    \/ \E select_fails \in BOOLEAN : get_kwh_cost(select_fails)
    \/ \E p \in Powers, a \in KwhArgs : save_power_reading(p, a, 0)

SettingsSpec == SettingsInit /\ [][SettingsNext]_vars

\* the same calls on a store that _create_tables has just created
NewStoreInit == SettingsInit /\ settings_kwh = Str(DEFAULT_KWH_COST)

NewStoreSpec == NewStoreInit /\ [][SettingsNext]_vars

\* the store with its reader: samples are saved, time passes and the
\* daily records are queried
QueryNext ==
    \/ \E p \in Powers, a \in KwhArgs : save_power_reading(p, a, 0)
    \/ \E step \in ClockSteps : AdvanceClock(step)
    \/ \E days \in QueryDays : get_daily_power_data(days)

QuerySpec == StoreSpecInit /\ [][QueryNext]_vars

\* the UI on a new store: the user edits and saves the price while the
\* polling thread delivers samples
UiInit == NewStoreInit

UiNext ==
    \/ \E v \in EntryValues : EditEntry(v)
    \/ _save_settings
    \/ \E thread \in CallbackThreads, p \in Powers, tk_raises \in BOOLEAN :
          _on_power_reading(thread, p, tk_raises)

UiSpec == UiInit /\ [][UiNext]_vars

\* two stores fed the same moments
PairNext ==
    \/ \E a \in PairSamples, b \in PairSamples :
          pair_save_power_reading(a, b)
    \/ \E step \in ClockSteps : AdvanceClock(step)

PairSpec == StoreSpecInit /\ [][PairNext]_vars

\* the OS schedules every thread and time passes
FairSpec ==
    /\ Spec
    /\ WF_vars(Tick)
    /\ WF_vars(stop_return)
    /\ \A t \in Threads : WF_vars(ThreadStep(t))

\* ------------------------------------------------------ scheduler claims

\* C3: after any sequence of start_monitoring()/stop_monitoring() calls at
\* most one polling loop is alive and at most one poll tick executes at a
\* time.
C3_SingleLoop ==
    /\ Cardinality({t \in Threads : Alive(t)}) <= 1
    /\ Cardinality({t \in Threads : InTick(t)}) <= 1

\* C4: when stop_monitoring() has returned, the polling thread it waited
\* for has fully exited.
C4_StoppedThreadExited == \A t \in joined : pc[t] = "done"

\* C5: an exception raised in a tick (by the Estimator call or by the
\* callback) is caught and puts the loop into the 1 s back-off instead of
\* the interval sleep; the back-off ends only when its second has elapsed
\* and leads back to the loop condition, which starts the next tick when
\* the running flag is true; the loop never ends while the flag reads true.
\* A loop in its back-off goes on to a next tick, unless it reads the flag
\* as false (or the model's budget of ticks is spent).
C5_BackoffThenNextTick ==
    /\ [][\A t \in Threads :
            /\ (InTick(t)
                  /\ pc'[t] \notin {pc[t], "deliver", "callback", "sleep"})
                  => (pc'[t] = "backoff" /\ sleepLeft'[t] = BackoffSeconds
                        /\ failed'[t])
            /\ (pc[t] = "backoff" /\ pc'[t] # "backoff")
                  => (sleepLeft[t] = 0 /\ pc'[t] = "check")
            /\ (pc[t] = "check" /\ running /\ pc'[t] # "check")
                  => pc'[t] = "sample"
            /\ (Alive(t) /\ pc'[t] = "done") => (pc[t] = "check" /\ ~running)
         ]_vars
    /\ \A t \in Threads :
          (pc[t] = "backoff")
             ~> (pc[t] = "sample" \/ (pc[t] = "done" /\ ~running)
                   \/ ticks = MaxTicks)

\* a thread whose earlier tick raised is inside a later tick
C5_Witness == \E t \in Threads : failed[t] /\ pc[t] = "sample"

\* C6: with a consumer registered, the consumer has received the samples
\* in the order the Estimator produced them: none skipped, none duplicated,
\* none after a later one: the k-th delivery is the k-th sample produced.
C6_DeliveredInPollOrder ==
    callback => delivered = [i \in 1..Len(delivered) |-> i]

\* C7: once the running flag is cleared and not set again, every polling
\* loop terminates; a loop that reads the flag as false starts no tick, and
\* a tick starts only from a read of the flag (one read per iteration).
C7_StopTerminatesLoop ==
    /\ (~running) ~> (running \/ \A t \in Threads : ~Alive(t))
    /\ [][\A t \in Threads :
            /\ (pc[t] = "check" /\ ~running /\ pc'[t] # "check")
                  => pc'[t] = "done"
            /\ (pc'[t] = "sample" /\ pc[t] # "sample")
                  => (pc[t] = "check" /\ running)
            /\ (pc'[t] = "check" /\ pc[t] # "check")
                  => (pc[t] = "none" \/ (Sleeping(t) /\ sleepLeft[t] = 0))
         ]_vars

\* a loop that ran ticks has terminated after a stop request
C7_Witness ==
    \E t \in Threads : pc[t] = "done" /\ ~running /\ ticks > 0 /\ t \in joined

\* ------------------------------------------------------ estimator claims

\* C1: get_power_readings() never raises: whatever the capability flag,
\* and whichever of the sensor refresh, the sensor reads, the psutil query,
\* the nvidia-smi query and the inventory lookups fail, the call returns a
\* (total_power, component_data) pair.
C1_NeverRaises ==
    sample # NoSample =>
        /\ ~sample.exc
        /\ sample.tier \in {"A", "B", "default"}
        /\ sample.total \in Nat
        /\ DOMAIN sample.data # {}

\* a call returned although the refresh, psutil and an inventory lookup
\* all failed with Tier A enabled
C1_Witness ==
    /\ sample # NoSample
    /\ lhm_initialized
    /\ hw.refresh_raises
    /\ ~hw.cpu_percent_est.ok
    /\ DOMAIN components # ComponentTypes

\* C2: the total of every returned sample is the sum of the power values
\* of its entries; the 20 W idle addend is one of them exactly when the
\* sample comes from Tier B, so that the total is the five components plus
\* 20 W in Tier B and the five components alone in Tier A; the default
\* sample's 100 W is the sum of its three entries.
C2_TotalIsSum ==
    sample # NoSample =>
        /\ sample.total = SumPower(sample.data, DOMAIN sample.data)
        /\ ("idle" \in DOMAIN sample.data) <=> (sample.tier = "B")
        /\ sample.tier = "B" =>
              /\ sample.data["idle"].power = MilliWatts(DEFAULT_IDLE_POWER)
              /\ sample.total = SumPower(sample.data, ComponentTypes)
                                   + MilliWatts(DEFAULT_IDLE_POWER)
        /\ sample.tier = "A" =>
              sample.total = SumPower(sample.data, ComponentTypes)

\* a Tier B sample with a busy CPU and GPU has been returned
C2_Witness ==
    /\ sample # NoSample
    /\ sample.tier = "B"
    /\ sample.data["cpu"].power > 0
    /\ sample.data["gpu"].power > 0

\* ---------------------------------------------------------- store claims
Dates == 0..((MaxClock + 6) \div 24)

\* how many times sample s was delivered to a database on local date d
Deliveries(readings, d, s) ==
    Cardinality({i \in 1..Len(readings) :
                    /\ readings[i].day = d
                    /\ readings[i].total_power = s.power
                    /\ readings[i].kwh = s.kwh})

\* C8: two databases that received, on every calendar date, the same
\* multiset of samples, in whatever order, hold the same DailyAggregate
\* for every date on which samples were recorded.
C8_OrderIndependent ==
    (\A d \in Dates : \A s \in Samples :
        Deliveries(power_readings, d, s) = Deliveries(power_readings2, d, s))
    => \A d \in Dates :
          (\E s \in Samples : Deliveries(power_readings, d, s) > 0)
          => RowsOfDate(daily_power, d) = RowsOfDate(daily_power2, d)

\* C9: a retried delivery of the sample just saved leaves the aggregate of
\* the day of the first delivery as that delivery left it.
C9_RetryNotDoubleCounted ==
    [][(lastSave'.retry /\ Len(power_readings') = Len(power_readings) + 1
          /\ RowsOfDate(daily_power, lastSave.today) # <<>>)
        => RowsOfDate(daily_power', lastSave.today)
              = RowsOfDate(daily_power, lastSave.today)
      ]_vars

\* C10: after save_power_reading, the aggregate of the local date exists
\* and the rows it was computed from include the row just inserted.
C10_AggregateCoversInsert ==
    lastSave # NoSave =>
        /\ RowsOfDate(daily_power, lastSave.today) # <<>>
        /\ lastSave.id \in lastSave.rows

\* C11: the daily_power table holds at most one record per date, and a
\* save_power_reading call replaces the record of the date it aggregates
\* (the new record takes its place, no second one is added) and leaves the
\* records of every other date as they were.
C11_OneRecordPerDate ==
    /\ \A d \in Dates : Len(RowsOfDate(daily_power, d)) <= 1
    /\ [][\A d \in Dates :
            /\ Len(RowsOfDate(daily_power', d)) <= 1
            /\ (Len(power_readings') > Len(power_readings)
                   /\ d # lastSave'.today)
                  => RowsOfDate(daily_power', d) = RowsOfDate(daily_power, d)
         ]_vars

\* the record of one date has been recomputed from two samples while the
\* record of an earlier date is in the table
C11_Witness ==
    \E d \in Dates, e \in Dates :
        /\ d < e
        /\ Len(RowsOfDate(daily_power, d)) = 1
        /\ Len(RowsOfDate(daily_power, e)) = 1
        /\ RowsOfDate(daily_power, e)[1].usage_hours
              = 2 * DEFAULT_POLLING_INTERVAL

\* the samples delivered to the store on local date d, in rowid order
DeliveredOn(readings, d) == SelectSeq(readings, LAMBDA r : r.day = d)

\* the total_power values of a sequence of rows
PowersOf(rows) == [i \in 1..Len(rows) |-> rows[i].total_power]

\* C12: for every date that has a DailyAggregate, avg_power is the
\* arithmetic mean of the total_power of all samples of that date and
\* max_power is their maximum.
C12_AvgAndMax ==
    \A d \in Dates :
        RowsOfDate(daily_power, d) # <<>> =>
            LET rows == DeliveredOn(power_readings, d)
                agg == RowsOfDate(daily_power, d)[1]
            IN  /\ rows # <<>>
                /\ agg.avg_power.num * Len(rows)
                      = SumSeq(PowersOf(rows)) * agg.avg_power.den
                /\ \A i \in 1..Len(rows) : rows[i].total_power <= agg.max_power
                /\ \E i \in 1..Len(rows) : rows[i].total_power = agg.max_power

\* C13: for every date that has a DailyAggregate, total_energy is the sum
\* over the samples of that date of power * poll interval, the interval
\* being the one the polling loop was started with (in W*s).
C13_EnergyUsesStartInterval ==
    \A d \in Dates :
        RowsOfDate(daily_power, d) # <<>> =>
            RowsOfDate(daily_power, d)[1].total_energy
                = SumSeq(PowersOf(DeliveredOn(power_readings, d))) * poll_interval

\* C14: for every date that has a DailyAggregate, usage_hours is the number
\* of samples of that date times the configured 5 s, whatever the spacing
\* of the ticks was (in seconds).
C14_UsageIsCountTimesInterval ==
    \A d \in Dates :
        RowsOfDate(daily_power, d) # <<>> =>
            RowsOfDate(daily_power, d)[1].usage_hours
                = Len(DeliveredOn(power_readings, d)) * DEFAULT_POLLING_INTERVAL

\* --------------------------------------------------------- settings claims

\* C15: a set_kwh_cost(p) call with p <= 0 fails with a validation error
\* and leaves the stored price as it was before the call.
C15_NonPositiveRejected ==
    (lastCall.op = "set" /\ lastCall.cost <= 0)
        => (lastCall.raised /\ settings_kwh = lastCall.before)

\* C16: when the last price call is a get_kwh_cost() and the set_kwh_cost
\* before it was given p > 0, the get returns p: whatever row the settings
\* table held before the set (none included) and however many samples
\* were saved in between (calls that met a database error set aside).
C16_SetThenGet ==
    (lastCall.op = "get" /\ lastCall.cost > 0 /\ ~lastCall.db_error)
        => (~lastCall.raised /\ lastCall.returned = lastCall.cost)

\* C17: a get_kwh_cost() call that finds no price row, or a value that is
\* not a number, returns the default without raising; the first call on a
\* newly created store returns the default it stored.
C17_DefaultWhenUnreadable ==
    lastCall.op = "get" =>
        /\ lastCall.before.kind \in {"absent", "text"}
              => (~lastCall.raised /\ lastCall.returned = DEFAULT_KWH_COST)
        /\ lastCall.before = Str(DEFAULT_KWH_COST)
              => (~lastCall.raised /\ lastCall.returned = DEFAULT_KWH_COST)

\* ------------------------------------------------------- Tier A claims

\* the utilization the Tier B estimate assumes for the GPU
TierBGpuUtil == IF hw.smi_est.ok THEN hw.smi_est.value ELSE DefaultGpuUtil

C19_PowerSensorUsed ==
    (sample # NoSample /\ sample.tier = "A") =>
        /\ hw.cpu.power.kind = "value"
              => sample.data["cpu"].power = hw.cpu.power.value
        /\ hw.gpu.power.kind = "value"
              => sample.data["gpu"].power = hw.gpu.power.value

\* C20: in a Tier A sample, a component without a package power sensor
\* whose utilization sensor reports u has the power
\* rated envelope * (u/100) * scaling factor, for that u.
C20_UtilizationSensorUsed ==
    (sample # NoSample /\ sample.tier = "A") =>
        /\ (hw.cpu.power.kind = "absent" /\ hw.cpu.load.kind = "value")
              => sample.data["cpu"].power
                    = components["cpu"] * hw.cpu.load.value
                        * CPU_UTILIZATION_SCALING
        /\ (hw.gpu.power.kind = "absent" /\ hw.gpu.load.kind = "value")
              => sample.data["gpu"].power
                    = components["gpu"] * hw.gpu.load.value
                        * GPU_UTILIZATION_SCALING

\* ------------------------------------------------------- Tier B claims

\* C21: in a Tier B sample the CPU power is rated_cpu * (cpu_util/100) *
\* 0.7 with psutil's cpu_util, the GPU power is rated_gpu * (gpu_util/100)
\* * 0.8 where gpu_util is the answer of nvidia-smi whenever the query
\* succeeds (0 included) and 30 only when it does not; motherboard, memory
\* and storage contribute their rated envelope, and the idle entry is 20 W
\* (powers in mW).
C21_TierBFormulas ==
    (sample # NoSample /\ sample.tier = "B") =>
        /\ sample.data["cpu"].power
              = components["cpu"] * hw.cpu_percent_est.value * 7
        /\ hw.smi_est.ok =>
              sample.data["gpu"].power
                 = components["gpu"] * hw.smi_est.value * 8
        /\ ~hw.smi_est.ok =>
              sample.data["gpu"].power = components["gpu"] * 30 * 8
        /\ \A c \in {"motherboard", "memory", "storage"} :
              sample.data[c].power = components[c] * 1000
        /\ sample.data["idle"].power = 20 * 1000

\* a Tier B sample whose GPU power is 0 because nvidia-smi reported 0
C21_Witness ==
    /\ sample # NoSample
    /\ sample.tier = "B"
    /\ hw.smi_est = Answer(0)
    /\ sample.data["gpu"].power = 0
    /\ sample.data["cpu"].power > 0

\* the Tier B estimate raises: psutil fails or an inventory lookup fails
TierBRaises ==
    ~hw.cpu_percent_est.ok \/ ComponentTypes \ DOMAIN components # {}

\* the call went to the Tier B estimator
TierBCalled ==
    ~lhm_initialized \/ hw.refresh_raises \/ LhmTry(hw, components).exc

\* C22: a call whose Tier B estimate raises returns the fixed default
\* sample, 100 W split into 50 W, 30 W and 20 W, and nothing else (in mW).
C22_DefaultSampleOnError ==
    (sample # NoSample /\ TierBCalled /\ TierBRaises) =>
        /\ ~sample.exc
        /\ sample.total = 100000
        /\ DOMAIN sample.data = {"cpu", "gpu", "other"}
        /\ sample.data["cpu"] = [power |-> 50000]
        /\ sample.data["gpu"] = [power |-> 30000]
        /\ sample.data["other"] = [power |-> 20000]

\* the default sample was returned after the CPU part of the estimate had
\* been computed: the GPU lookup failed
C22_Witness ==
    /\ sample # NoSample
    /\ sample.tier = "default"
    /\ ~lhm_initialized
    /\ hw.cpu_percent_est = Answer(50)
    /\ DOMAIN components = ComponentTypes \ {"gpu"}
\* C23: a start_monitoring call made while monitoring is running creates no
\* thread and changes neither the running flag, the thread reference, the
\* interval of any loop nor any other field of the scheduler
C23_StartWhileRunningIsNoOp ==
    [][((\E i \in ApiIntervals : call_start_monitoring(i)) /\ running) =>
          /\ nThreads' = nThreads
          /\ running' = running
          /\ monitor_thread' = monitor_thread
          /\ thInterval' = thInterval
          /\ UNCHANGED monitorVars]_vars

\* a start with interval 1 was made while the loop started with interval 5
\* was running
C23_Witness ==
    /\ lastApi.op = "start"
    /\ lastApi.was_running
    /\ lastApi.interval = 1
    /\ running
    /\ nThreads = 1
    /\ monitor_thread = 1
    /\ thInterval[1] = DEFAULT_POLLING_INTERVAL

\* C24: a stop_monitoring call that follows a completed stop_monitoring
\* call, or that is made when monitoring was never started, changes no field
\* of the scheduler: running stays false and the thread reference stays
\* empty, and every completed stop leaves exactly that state
C24_StopIsIdempotent ==
    /\ []((lastApi.op = "stop" /\ fg = "idle") =>
             (~running /\ monitor_thread = 0))
    /\ [][(call_stop_monitoring /\ lastApi.op \in {"none", "stop"}) =>
             (UNCHANGED monitorVars /\ ~running' /\ monitor_thread' = 0)]_vars

\* a second stop in a row was made after monitoring had been started and
\* stopped
C24_Witness ==
    /\ lastApi.op = "stop"
    /\ lastApi.again
    /\ fg = "idle"
    /\ joined # {}
    /\ ~running
    /\ monitor_thread = 0

\* the same machine with nothing that raises in a detector
Healthy(m) ==
    [m EXCEPT !.cpu_freq_raises = FALSE,
              !.vm_raises = FALSE,
              !.lhm_cpu = [@ EXCEPT !.update_raises = FALSE],
              !.lhm_gpu = [@ EXCEPT !.update_raises = FALSE],
              !.lhm_storage = [@ EXCEPT !.update_raises = FALSE]]

\* C26: detect_hardware() returns an entry for each of the five types; the
\* entry of a type whose detector hit an internal error is the default
\* Component record, and the entry of every other type is what the same
\* machine gives when no detector hits an error
C26_DetectorErrorGivesDefault ==
    detected # NotDetected =>
        /\ DOMAIN detected.entries = ComponentTypes
        /\ \A c \in detected.errors :
              detected.entries[c] = DefaultComponent[c]
        /\ \A c \in ComponentTypes \ detected.errors :
              detected.entries[c] =
                  detect_hardware(lhm_initialized, Healthy(machine))[c].info

\* C25: get_daily_power_data(n) returns exactly the records of daily_power
\* whose date lies in today-(n-1) .. today, each once, in strictly ascending
\* order of date
C25_WindowOfRecentDays ==
    lastQuery # NoQuery =>
        LET today == Today(utcNow, tzOffset)
            res == lastQuery.result
        IN  /\ {res[i] : i \in 1..Len(res)} =
                  {daily_power[j] : j \in
                      {k \in 1..Len(daily_power) :
                          /\ daily_power[k].date >= today - (lastQuery.days - 1)
                          /\ daily_power[k].date <= today}}
            /\ \A i \in 1..(Len(res) - 1) : res[i].date < res[i + 1].date

\* a query for one day, made on 2024-01-01 of a store that also holds the
\* record of 2023-12-31, returned today's record only
C25_Witness ==
    /\ lastQuery.days = 1
    /\ Len(lastQuery.result) = 1
    /\ Len(daily_power) = 2
    /\ IsoFormat(lastQuery.result[1].date) = <<2024, 1, 1>>

\* C27: once a save_power_reading call has completed, every record of
\* daily_power equals the aggregate of all rows of power_readings whose
\* timestamp falls on the record's date, the record of the day before
\* included when midnight passed between the INSERT and the aggregation
C27_RecordsMatchReadings ==
    lastSave # NoSave =>
        \A i \in 1..Len(daily_power) :
            daily_power[i] =
                [date |-> daily_power[i].date] @@
                Aggregate(ReadingsOf(power_readings, daily_power[i].date))

\* C28: a reading's cost is the price of the energy of its poll interval,
\* and while every reading was saved at the one price p each daily record
\* has cost = total_energy * p (cost in W*cent/1000 for one hour,
\* total_energy in W*s: cost * 3600 = total_energy * p)
C28_CostIsEnergyTimesPrice ==
    /\ \A i \in 1..Len(power_readings) :
          power_readings[i].cost * 3600 =
              power_readings[i].total_power * DEFAULT_POLLING_INTERVAL
                  * power_readings[i].kwh
    /\ \A p \in Prices :
          (\A i \in 1..Len(power_readings) : power_readings[i].kwh = p) =>
              \A j \in 1..Len(daily_power) :
                  daily_power[j].cost * 3600 = daily_power[j].total_energy * p

\* C29: the price behind every persisted reading and behind the projection
\* on display is > 0 and is the price last loaded or accepted by
\* _save_settings: an edit that was refused, or never saved, is not used
C29_PriceInEffectIsValid ==
    /\ \A i \in 1..Len(power_readings) : power_readings[i].kwh > 0
    /\ current_cost # NoProjection =>
          /\ current_cost.price > 0
          /\ current_cost.price = current_cost.valid

\* C30: the last sample the UI consumer took as far as its save (its
\* projection is on display) is the last row of power_readings, and the
\* aggregation that followed the INSERT covered that row
C30_EverySamplePersisted ==
    current_cost # NoProjection =>
        /\ power_readings # <<>>
        /\ lastSave.id = Len(power_readings)
        /\ lastSave.power = current_cost.power
        /\ lastSave.kwh = current_cost.price

====
